---- MODULE Spec2Model ----
(***************************************************************************)
(* Model of the media-recommendation core:                                 *)
(*   - MediaRecommendationCrew.run and the result-processing cascade       *)
(*     (src/crew/orchestrator.py),                                         *)
(*   - PersistentCacheManager (src/cache_manager.py).                      *)
(*                                                                         *)
(* Python values are tagged records [t |-> tag, v |-> payload]; a string   *)
(* is a sequence of tokens (words, "SP" for one whitespace character, "/"  *)
(* for a slash), a number is an integer count of hundredths (8.5 is 850),  *)
(* a dict is a function from field names to values, a list is a sequence.  *)
(***************************************************************************)
EXTENDS Integers, Sequences, FiniteSets, TLC

VARIABLES
    pc,          \* position of the caller of run(): "idle", "kickoff", "returned"
    call,        \* arguments of the current run() call
    attrs,       \* transient attributes stored on the orchestrator by run()
    descr,       \* what the six task descriptions currently hold
    crew,        \* ordered task list of the crew built by this call
    work,        \* what this call of run() has attempted, and what it was given
    outcome,     \* how run() ended: [kind, value]
    elapsed,     \* ticks of wall-clock time run() has been waiting in crew.kickoff
    cstate,      \* cache instance: "unconstructed", "live", "failed"
    _cache,      \* PersistentCacheManager._cache: key -> <<timestamp, value>>
    _dirty,      \* PersistentCacheManager._dirty
    _last_save_time, \* PersistentCacheManager._last_save_time
    file,        \* content of the cache file on disk
    disk,        \* what the file system currently allows
    now,         \* time.time() of the cache's process
    last,        \* the last cache operation and what it gave back
    memo,        \* the last call through a cache_api_call wrapper and what it did
    lock,        \* PersistentCacheManager.lock: its owner and its hold count
    thr,         \* per thread: the cache method it is in and the steps left
    access,      \* the last access to the in-memory map or the cache file
    bench,       \* the last call of one step of the result cascade on its own
    peer         \* a second cache instance bound to the same file

runVars == <<pc, call, attrs, descr, crew, work, outcome, elapsed>>
cacheVars == <<cstate, _cache, _dirty, _last_save_time, file, disk, now, last>>
memoVars == <<memo>>
lockVars == <<lock, thr, access>>
benchVars == <<bench>>
peerVars == <<peer>>
vars == <<pc, call, attrs, descr, crew, work, outcome, elapsed, cstate, _cache, _dirty, _last_save_time, file, disk, now, last, memo, lock, thr, access, bench, peer>>

----------------------------------------------------------------------------
(* Bounds of the model *)

MaxLines == 2
MaxItems == 2
Overhead == 1
MaxNow == 2

----------------------------------------------------------------------------
(* Python values *)

None == [t |-> "none", v |-> 0]
Str(toks) == [t |-> "str", v |-> toks]
Num(h) == [t |-> "num", v |-> h]
Dict(f) == [t |-> "dict", v |-> f]
List(s) == [t |-> "list", v |-> s]
Word(w) == Str(<<w>>)

\* Python truthiness of a value
Truthy(x) ==
    CASE x.t = "none" -> FALSE
      [] x.t = "str" -> x.v # <<>>
      [] x.t = "num" -> x.v # 0
      [] x.t = "list" -> x.v # <<>>
      [] x.t = "dict" -> DOMAIN x.v # {}
      [] OTHER -> TRUE

\* dict.get(key) on a dict payload: None when the key is absent
DictGet(d, k) == IF k \in DOMAIN d THEN d[k] ELSE None

\* dict.setdefault(key, default) on a dict payload
SetDefault(d, k, val) == IF k \in DOMAIN d THEN d ELSE d @@ (k :> val)

\* d[key] = val on a dict payload
DictSet(d, k, val) == (k :> val) @@ d

\* a non-empty string
IsNonEmptyStr(x) == x.t = "str" /\ x.v # <<>>

----------------------------------------------------------------------------
(* Strings as token sequences *)

\* a whitespace character: "SP" is a space, "TAB" any other one
IsSpace(tok) == tok \in {"SP", "TAB"}

RECURSIVE LStrip(_)
LStrip(s) == IF s # <<>> /\ IsSpace(Head(s)) THEN LStrip(Tail(s)) ELSE s

RECURSIVE RStrip(_)
RStrip(s) == IF s # <<>> /\ IsSpace(s[Len(s)]) THEN RStrip(SubSeq(s, 1, Len(s) - 1)) ELSE s

\* str.strip()
Strip(s) == RStrip(LStrip(s))

\* str.lower() of one token
LowerTok(tok) ==
    CASE tok = "Action" -> "action"
      [] tok = "Movies" -> "movies"
      [] tok = "NEW" -> "new"
      [] OTHER -> tok

\* str.lower()
Lower(s) == [i \in 1..Len(s) |-> LowerTok(s[i])]

----------------------------------------------------------------------------
(* Inputs of run() *)

Requests ==
    { <<>>,
      <<"SP">>,
      <<"action", "SP", "movies">>,
      <<"SP", "Action", "SP", "Movies", "SP">>,
      <<"sci", "SP", "fi", "SP", "books">>,
      <<"drama", "SP", "series">>,
      <<"latest", "SP", "thriller", "SP", "shows", "SP", "please">>,
      <<"give", "SP", "me", "SP", "an", "SP", "action", "SP", "movie", "SP", "please">>,
      <<"NEW", "SP", "comedy", "SP", "films">>,
      <<"books", "SP", "with", "SP", "{", "SP", "in", "SP", "the", "SP", "title">> }

MediaTypes == {"movie", "book", "tv", "both"}

Counts == {0, 1, 3, 10, 11}

valid_types == {"movie", "book", "tv"}

\* _validate_inputs: "ok", or the error it raises
_validate_inputs(user_request, media_type, num_recommendations) ==
    IF user_request = <<>> \/ Strip(user_request) = <<>>
    THEN "ValueError"
    ELSE IF media_type \notin valid_types
         THEN "ValueError"
         ELSE IF ~(1 <= num_recommendations /\ num_recommendations <= 10)
              THEN "ValueError"
              ELSE "ok"

----------------------------------------------------------------------------
(* Fast-path classifier *)

\* the alternatives of the genre group, in the order of the regular expression
genres ==
    << <<"action">>, <<"adventure">>, <<"animation">>, <<"comedy">>, <<"crime">>,
       <<"documentary">>, <<"drama">>, <<"family">>, <<"fantasy">>, <<"history">>,
       <<"horror">>, <<"music">>, <<"mystery">>, <<"romance">>, <<"sci-fi">>,
       <<"sci", "SP", "fi">>, <<"science", "SP", "fiction">>, <<"thriller">>,
       <<"war">>, <<"western">> >>

\* the media kinds of type_patterns, in dict order
type_order == <<"movie", "book", "tv">>

\* the words the suffix pattern of a media kind accepts
type_patterns(m_type) ==
    CASE m_type = "movie" -> {"movie", "movies"}
      [] m_type = "book" -> {"book", "books"}
      [] m_type = "tv" -> {"tv", "show", "shows", "series"}

IsPrefix(p, s) == Len(p) <= Len(s) /\ SubSeq(s, 1, Len(p)) = p

\* ^<genre>\s+<suffix>$ for one genre alternative and one media kind
MatchesPattern(request, g, m_type) ==
    /\ IsPrefix(g, request)
    /\ LET rest == SubSeq(request, Len(g) + 1, Len(request))
       IN /\ Len(rest) >= 2
          /\ \A i \in 1..(Len(rest) - 1) : IsSpace(rest[i])
          /\ rest[Len(rest)] \in type_patterns(m_type)

\* match.group(1): the first genre alternative that lets the pattern match
MatchedGenre(request, m_type) ==
    LET hits == {i \in 1..Len(genres) : MatchesPattern(request, genres[i], m_type)}
    IN IF hits = {} THEN <<>>
       ELSE genres[CHOOSE i \in hits : \A j \in hits : i <= j]

\* _check_fast_path: None, or {"type": m_type, "genre": genre}
_check_fast_path(user_request) ==
    LET request == Strip(Lower(user_request))
        kinds == {k \in 1..Len(type_order) : MatchedGenre(request, type_order[k]) # <<>>}
    IN IF kinds = {} THEN None
       ELSE LET k == CHOOSE i \in kinds : \A j \in kinds : i <= j
                genre == MatchedGenre(request, type_order[k])
            IN Dict([type |-> type_order[k],
                     genre |-> IF genre = <<"sci", "SP", "fi">> THEN <<"sci-fi">> ELSE genre])

----------------------------------------------------------------------------
(* Pipeline builder *)

\* the specialist task of a media kind
SpecialistTask(kind) ==
    CASE kind = "movie" -> <<"movie_task">>
      [] kind = "book" -> <<"book_task">>
      [] kind = "tv" -> <<"tv_series_task">>
      [] OTHER -> <<>>

\* _create_fast_path_crew: the task list of the simplified crew
_create_fast_path_crew(context) == SpecialistTask(context.v.type) \o <<"editor_task">>

\* lower-cased words that contain one of the research keywords
\* (trending, new, recent, latest, upcoming, update, news, current) as a substring
KeywordWords ==
    {"trending", "new", "recent", "latest", "upcoming", "update", "news", "current",
     "renewed", "currently"}

\* _create_crew that looks for the research keywords without lower-casing
_create_crew_case_sensitive(at) ==
    LET media_type == IF at._current_media_type.set THEN at._current_media_type.val ELSE "movie"
        user_request == IF at._current_user_request.set THEN at._current_user_request.val ELSE <<>>
        research == IF \E i \in 1..Len(user_request) : user_request[i] \in KeywordWords
                    THEN <<"research_task">> ELSE <<>>
    IN <<"analysis_task">> \o SpecialistTask(media_type) \o research \o <<"editor_task">>

\* _create_crew: the task list of the full crew, from the transient attributes
_create_crew(at) ==
    LET media_type == IF at._current_media_type.set THEN at._current_media_type.val ELSE "movie"
        user_request == IF at._current_user_request.set THEN at._current_user_request.val ELSE <<>>
        research == IF \E i \in 1..Len(user_request) : LowerTok(user_request[i]) \in KeywordWords
                    THEN <<"research_task">> ELSE <<>>
    IN <<"analysis_task">> \o SpecialistTask(media_type) \o research \o <<"editor_task">>

----------------------------------------------------------------------------
(* Task descriptions *)

\* a request text with a brace in it
HasBrace(s) == \E i \in 1..Len(s) : s[i] \in {"{", "}"}

\* _update_task_descriptions: [descr, raised].  The templates are formatted in
\* place, so from the second call on str.format runs on text that already holds
\* the first call's values: a brace of that request makes the first format
\* raise ValueError, which is not caught here; otherwise the five first
\* descriptions are unchanged and the editor description, whose JSON example
\* now has single braces, raises KeyError, which is caught and logged.
_update_task_descriptions(d, task_inputs) ==
    IF d.state = "template"
    THEN [descr |-> [state |-> "formatted", inputs |-> task_inputs], raised |-> "none"]
    ELSE IF HasBrace(d.inputs.user_request)
         THEN [descr |-> d, raised |-> "ValueError"]
         ELSE [descr |-> d, raised |-> "none"]

----------------------------------------------------------------------------
(* Fallback Recommender *)

FallbackRec(title, type, year, genre, rating, similar) ==
    Dict([title |-> Word(title), type |-> Word(type), year |-> Word(year),
          genre |-> Word(genre), rating |-> Num(rating),
          description |-> Word("description"), why_recommended |-> Word("why"),
          similar_titles |-> List(similar)])

fallback_data(kind) ==
    CASE kind = "movie" ->
           << FallbackRec("Inception", "movie", "2010", "Sci-Fi, Thriller", 880, <<Word("The Matrix")>>),
              FallbackRec("The Dark Knight", "movie", "2008", "Action, Crime", 900, <<Word("Batman Begins")>>) >>
      [] kind = "book" ->
           << FallbackRec("Project Hail Mary", "book", "2021", "Sci-Fi", 480, <<Word("The Martian")>>),
              FallbackRec("Dune", "book", "1965", "Sci-Fi", 470, <<Word("Foundation")>>) >>
      [] kind = "tv" ->
           << FallbackRec("Breaking Bad", "tv", "2008", "Crime, Drama", 950, <<Word("Better Call Saul"), Word("Ozark")>>),
              FallbackRec("Stranger Things", "tv", "2016", "Sci-Fi, Horror", 870, <<Word("Dark"), Word("The OA")>>) >>

\* list[:1] in the place of list[:3]
TakeOne(s) == SubSeq(s, 1, IF Len(s) < 1 THEN Len(s) ELSE 1)

\* list[:3]
Take3(s) == SubSeq(s, 1, IF Len(s) < 3 THEN Len(s) ELSE 3)

\* _get_fallback_recommendations that ignores the media type
_get_fallback_recommendations_movie_only(user_request, media_type) ==
    Take3(fallback_data("movie"))

\* _get_fallback_recommendations
_get_fallback_recommendations(user_request, media_type) ==
    IF media_type \in {"movie", "book", "tv"}
    THEN Take3(fallback_data(media_type))
    ELSE Take3(fallback_data("movie"))

----------------------------------------------------------------------------
(* Post-processor *)

\* the tokens before the first separator token: s.split(sep)[0]
RECURSIVE SplitFirst(_, _)
SplitFirst(s, sep) ==
    IF s = <<>> \/ Head(s) = sep THEN <<>> ELSE <<Head(s)>> \o SplitFirst(Tail(s), sep)

\* float() of one word, in hundredths; -1 when float() raises ValueError
FloatTok(tok) ==
    CASE tok = "8.5" -> 850
      [] tok = "8.47" -> 847
      [] tok = "4.7" -> 470
      [] tok = "9" -> 900
      [] tok = "10" -> 1000
      [] OTHER -> -1

\* float(s): surrounding whitespace is ignored, anything but one numeric word raises
FloatOf(s) == LET w == Strip(s) IN IF Len(w) = 1 THEN FloatTok(w[1]) ELSE -1

\* round(x, 1) on hundredths (ties to even)
Round1(h) ==
    LET lo == (h \div 10) * 10
        r == h - lo
    IN IF r < 5 THEN lo
       ELSE IF r > 5 THEN lo + 10
       ELSE IF (lo \div 10) % 2 = 0 THEN lo ELSE lo + 10

\* _normalize_rating that takes a number for a score out of ten and stores it
\* as stars out of five
_normalize_rating_five_star(rec) ==
    LET rating == DictGet(rec, "rating")
    IN IF rating.t = "num"
       THEN DictSet(rec, "rating", Num(Round1(rating.v \div 2)))
       ELSE IF rating.t = "str"
            THEN LET f == IF \E i \in 1..Len(rating.v) : rating.v[i] = "/"
                          THEN FloatOf(Strip(SplitFirst(rating.v, "/")))
                          ELSE FloatOf(rating.v)
                 IN IF f >= 0 THEN DictSet(rec, "rating", Num(Round1(f)))
                    ELSE DictSet(rec, "rating", Word("N/A"))
            ELSE rec

\* _normalize_rating on a dict payload
_normalize_rating(rec) ==
    LET rating == DictGet(rec, "rating")
    IN IF rating.t = "num"
       THEN DictSet(rec, "rating", Num(Round1(rating.v)))
       ELSE IF rating.t = "str"
            THEN LET f == IF \E i \in 1..Len(rating.v) : rating.v[i] = "/"
                          THEN FloatOf(Strip(SplitFirst(rating.v, "/")))
                          ELSE FloatOf(rating.v)
                 IN IF f >= 0 THEN DictSet(rec, "rating", Num(Round1(f)))
                    ELSE DictSet(rec, "rating", Word("N/A"))
            ELSE rec

\* the defaults and the year truncation of _post_process_recommendations, one record
PostProcessRec(rec) ==
    LET d1 == SetDefault(rec, "rating", Word("N/A"))
        d2 == SetDefault(d1, "similar_titles", List(<<>>))
        d3 == SetDefault(d2, "description", Word("No description available"))
        d4 == SetDefault(d3, "why_recommended", Word("Matches your preferences"))
        d5 == SetDefault(d4, "image_url", None)
        d6 == SetDefault(d5, "trailer_url", None)
        d7 == SetDefault(d6, "type", Word("unknown"))
        d8 == IF "year" \in DOMAIN d7
              THEN DictSet(d7, "year", Str(SplitFirst(d7["year"].v, "-")))
              ELSE d7
    IN _normalize_rating(d8)

\* _post_process_recommendations on a list of dicts
_post_process_recommendations(recommendations) ==
    [i \in 1..Len(recommendations) |-> Dict(PostProcessRec(recommendations[i].v))]

----------------------------------------------------------------------------
(* Result parser, stage 2: structured text *)

\* a line is [pat, val]: the marker the lower-cased line holds and the text
\* after its first colon
new_rec_indicators == {"title:", "movie:", "book:", "tv:", "recommendation", "###", "---"}

\* the ordinal n of a line that holds "n."
OrdinalOf(pat) ==
    CASE pat = "1." -> 1
      [] pat = "2." -> 2
      [] pat = "3." -> 3
      [] OTHER -> 0

\* _is_new_recommendation
_is_new_recommendation(line, current_count) ==
    \/ line.pat \in new_rec_indicators
    \/ OrdinalOf(line.pat) = current_count + 1

\* field_patterns: the field a marker belongs to, "none" for no field
field_patterns(pat) ==
    CASE pat \in {"title:", "movie:", "book:", "tv:", "show:"} -> "title"
      [] pat \in {"year:", "released:", "published:", "aired:"} -> "year"
      [] pat \in {"genre:", "category:"} -> "genre"
      [] pat \in {"rating:", "score:"} -> "rating"
      [] pat \in {"description:", "summary:", "plot:"} -> "description"
      [] pat \in {"why:", "recommended because:", "matches because:"} -> "why_recommended"
      [] pat \in {"type:"} -> "type"
      [] pat \in {"image:", "cover:", "poster:"} -> "image_url"
      [] pat \in {"trailer:", "video:"} -> "trailer_url"
      [] pat \in {"preview:", "sample:", "google books:"} -> "preview_url"
      [] OTHER -> "none"

\* _extract_field on the record being filled
_extract_field(line, current_rec) ==
    IF field_patterns(line.pat) = "none" THEN current_rec
    ELSE DictSet(current_rec, field_patterns(line.pat), Str(Strip(line.val)))

\* _is_valid_recommendation
_is_valid_recommendation(rec) == Truthy(DictGet(rec, "title"))

\* the line loop of _parse_structured_text: the records collected so far and
\* the record being filled
RECURSIVE ScanLines(_, _, _)
ScanLines(lines, recommendations, current_rec) ==
    IF lines = <<>>
    THEN IF DOMAIN current_rec # {} /\ _is_valid_recommendation(current_rec)
         THEN Append(recommendations, Dict(current_rec))
         ELSE recommendations
    ELSE LET line == Head(lines)
             flush == /\ _is_new_recommendation(line, Len(recommendations))
                      /\ DOMAIN current_rec # {}
                      /\ _is_valid_recommendation(current_rec)
             recs1 == IF flush THEN Append(recommendations, Dict(current_rec)) ELSE recommendations
             cur1 == IF flush THEN <<>> ELSE current_rec
         IN ScanLines(Tail(lines), recs1, _extract_field(line, cur1))

\* _parse_structured_text
_parse_structured_text(text) == _post_process_recommendations(ScanLines(text.lines, <<>>, <<>>))

----------------------------------------------------------------------------
(* Result parser, stage 1: JSON extraction *)

\* what json.loads gives for text that is not JSON
DecodeError == [t |-> "error", v |-> 0]

\* The JSON-looking parts of a text are segments [shape, loads]: the shape says
\* which of the three patterns match the segment, loads what json.loads makes
\* of the matched text.
\*   "flat"   [ {...} ] with one brace-free object: patterns 1 and 2
\*   "array"  [ {...} ... {...} ]: pattern 2
\*   "object" {"recommendations" ... }: pattern 3
PatternShapes(pattern) ==
    CASE pattern = 1 -> {"flat"}
      [] pattern = 2 -> {"flat", "array"}
      [] pattern = 3 -> {"object"}

\* re.search of one pattern: the index of the leftmost segment it matches, 0 for none
SearchPattern(text, pattern) ==
    LET hits == {i \in 1..Len(text.json) : text.json[i].shape \in PatternShapes(pattern)}
    IN IF hits = {} THEN 0 ELSE CHOOSE i \in hits : \A j \in hits : i <= j

\* _extract_json_from_text: the first pattern, in order, that matches; None for no match
_extract_json_from_text(text) ==
    IF SearchPattern(text, 1) # 0 THEN text.json[SearchPattern(text, 1)]
    ELSE IF SearchPattern(text, 2) # 0 THEN text.json[SearchPattern(text, 2)]
    ELSE IF SearchPattern(text, 3) # 0 THEN text.json[SearchPattern(text, 3)]
    ELSE None

\* isinstance(item, dict) and item.get('title')
IsValidItem(item) == item.t = "dict" /\ Truthy(DictGet(item.v, "title"))

\* the valid_items loop of _parse_json_safely
RECURSIVE ValidItems(_)
ValidItems(s) ==
    IF s = <<>> THEN <<>>
    ELSE (IF IsValidItem(Head(s)) THEN <<Head(s)>> ELSE <<>>) \o ValidItems(Tail(s))

\* _parse_json_safely on what json.loads gave: a list, or None
_parse_json_safely(parsed_data) ==
    IF parsed_data.t = "list"
    THEN LET valid_items == ValidItems(parsed_data.v)
         IN IF valid_items # <<>> THEN List(valid_items) ELSE None
    ELSE None

\* str(result) as a text
StrOfResult(result) ==
    IF result.t = "text" THEN result.v
    ELSE [json |-> <<>>, lines |-> << [pat |-> "prose", val |-> <<"None">>] >>]

\* _parse_result: a list, or None
_parse_result(result) ==
    IF result.t = "list" THEN result
    ELSE LET result_str == StrOfResult(result)
             json_match == _extract_json_from_text(result_str)
         IN IF json_match # None
            THEN _parse_json_safely(json_match.loads)
            ELSE LET structured_result == _parse_structured_text(result_str)
                 IN IF structured_result # <<>> THEN List(structured_result) ELSE None

----------------------------------------------------------------------------
(* Rating enrichment *)

\* what the direct rating lookup (cache, then content API) gives for one record
FetchOutcomes == {"none", "error", "rating"}

\* _fetch_rating_for_rec: a number or None
_fetch_rating_for_rec(rec, net) ==
    LET title == DictGet(rec, "title")
        media_type == DictGet(rec, "type")
    IN IF ~Truthy(title) THEN None
       ELSE IF media_type \in {Word("movie"), Word("book"), Word("tv")}
                 /\ title.t = "str" /\ net = "rating"
            THEN Num(870)
            ELSE None

\* the ratings for which _enrich_ratings attempts a lookup
IsSentinel(rating) == rating \in {None, Str(<<>>), Word("N/A"), Word("Unknown")}

\* _enrich_ratings from record i on.  A record that is not a dict raises inside
\* the handler of its own try block, which ends the loop.
RECURSIVE EnrichFrom(_, _, _)
EnrichFrom(recommendations, i, fetch) ==
    IF i > Len(recommendations) THEN recommendations
    ELSE LET rec == recommendations[i]
         IN IF rec.t # "dict" THEN recommendations
            ELSE IF ~IsSentinel(DictGet(rec.v, "rating"))
                 THEN EnrichFrom(recommendations, i + 1, fetch)
                 ELSE LET fetched_rating == _fetch_rating_for_rec(rec.v, fetch[i])
                          rating == IF fetched_rating # None THEN fetched_rating ELSE Word("N/A")
                      IN EnrichFrom([recommendations EXCEPT ![i] = Dict(DictSet(rec.v, "rating", rating))],
                                    i + 1, fetch)

_enrich_ratings(recommendations, fetch) == EnrichFrom(recommendations, 1, fetch)

\* _process_crew_result without the fallback for an empty parse
_process_crew_result_no_fallback(result, user_request, media_type, fetch) ==
    LET parsed == _parse_result(result)
        recommendations == IF Truthy(parsed) THEN parsed.v ELSE <<>>
    IN _enrich_ratings(recommendations, fetch)

\* _process_crew_result
_process_crew_result(result, user_request, media_type, fetch) ==
    LET parsed == _parse_result(result)
        recommendations == IF Truthy(parsed) THEN parsed.v ELSE <<>>
    IN IF recommendations = <<>>
       THEN _get_fallback_recommendations(user_request, media_type)
       ELSE _enrich_ratings(recommendations, fetch)

----------------------------------------------------------------------------
(* run(): inputs and pipeline results *)

Call(user_request, media_type, num_recommendations) ==
    [user_request |-> user_request, media_type |-> media_type,
     num_recommendations |-> num_recommendations]

NoCall == Call(<<>>, "", 0)

ActionMovies == <<"action", "SP", "movies">>

\* the calls of run() the model makes: every request as a movie request for 3
\* items, and one request with every media type and every count
Calls ==
    {Call(r, "movie", 3) : r \in Requests}
      \cup {Call(ActionMovies, m, 3) : m \in MediaTypes}
      \cup {Call(ActionMovies, "movie", n) : n \in Counts}
      \cup {Call(<<"drama", "SP", "series">>, "tv", 1),
            Call(<<"sci", "SP", "fi", "SP", "books">>, "book", 10)}

\* records the pipeline can put in its final output
Absent == [t |-> "absent", v |-> 0]

Rec(title, rating, type) ==
    LET val == [title |-> title, rating |-> rating, type |-> type]
    IN Dict([f \in {g \in {"title", "rating", "type"} : val[g] # Absent} |-> val[f]])

RawDicts ==
    { Rec(Word("Dune"), Str(<<"8.5", "/", "10">>), Word("movie")),
      Rec(Word("Dune"), Num(847), Absent),
      Rec(Word("Heat"), Absent, Word("movie")),
      Rec(Word("Emma"), Word("N/A"), Word("book")),
      Rec(Absent, Num(847), Word("movie")),
      Rec(Str(<<>>), Word("N/A"), Absent),
      Rec(Num(5), Absent, Word("movie")),
      Rec(Absent, Absent, Absent) }

\* sequences of 1..n elements of a set
SeqsUpTo(S, n) == UNION {[1..k -> S] : k \in 1..n}

\* a pipeline result that is already a Python list
ListResults == {List(s) : s \in SeqsUpTo(RawDicts \cup {Word("Dune")}, MaxItems) \cup {<<>>}}

\* JSON-looking segments of a text
Segments ==
    {[shape |-> "flat", loads |-> List(<<d>>)] : d \in RawDicts}
      \cup {[shape |-> "array", loads |-> List(s)] : s \in SeqsUpTo(RawDicts, MaxItems) \ SeqsUpTo(RawDicts, 1)}
      \cup {[shape |-> sh, loads |-> DecodeError] : sh \in {"flat", "array", "object"}}
      \cup {[shape |-> "object", loads |-> Dict([recommendations |-> List(<<>>)])]}

Lines ==
    { [pat |-> "title:", val |-> <<"Dune">>],
      [pat |-> "title:", val |-> <<>>],
      [pat |-> "movie:", val |-> <<"SP", "Heat">>],
      [pat |-> "rating:", val |-> <<"SP", "8.5", "/", "10">>],
      [pat |-> "score:", val |-> <<"garbage">>],
      [pat |-> "year:", val |-> <<"2010", "-", "07">>],
      [pat |-> "type:", val |-> <<"movie">>],
      [pat |-> "###", val |-> <<>>],
      [pat |-> "2.", val |-> <<>>],
      [pat |-> "prose", val |-> <<>>] }

\* a two-record JSON array whose first record holds a one-object array of its
\* own, as in [{"title": "Dune", "cast": [{"name": "Chalamet"}]}, {"title": "Heat"}]:
\* the outer array matches pattern 2, the inner one patterns 1 and 2
CastList == [shape |-> "flat", loads |-> List(<<Dict([name |-> Word("Chalamet")])>>)]

DuneAndHeat ==
    [shape |-> "array",
     loads |-> List(<<Dict([title |-> Word("Dune"), cast |-> CastList.loads]),
                      Rec(Word("Heat"), Absent, Word("movie"))>>)]

NestedTexts == {[json |-> <<DuneAndHeat, CastList>>, lines |-> l] : l \in SeqsUpTo(Lines, 1) \cup {<<>>}}

\* texts: JSON only, lines only, and JSON together with lines
Texts ==
    {[json |-> <<g>>, lines |-> <<>>] : g \in Segments}
      \cup {[json |-> <<>>, lines |-> l] : l \in SeqsUpTo(Lines, MaxLines) \cup {<<>>}}
      \cup {[json |-> <<g>>, lines |-> <<l>>] : g \in {h \in Segments : h.shape # "array"}, l \in Lines}
      \cup {[json |-> <<g, h>>, lines |-> <<>>] :
              g \in {x \in Segments : x.shape = "object"}, h \in {x \in Segments : x.shape = "flat"}}
      \cup NestedTexts

\* what crew.kickoff can return: a list, a text, or nothing
Results == ListResults \cup {[t |-> "text", v |-> x] : x \in Texts} \cup {None}

----------------------------------------------------------------------------
(* run() *)

NotSet(val) == [set |-> FALSE, val |-> val]
IsSet(val) == [set |-> TRUE, val |-> val]

NoOutcome == [kind |-> "none", value |-> <<>>]
Returned(value) == [kind |-> "return", value |-> value]

\* the finally block of run(): only _current_media_type is deleted
Finally(at) == [at EXCEPT !._current_media_type = NotSet("")]

\* the except block of run(): the fallback list is returned
Except(c) == Returned(_get_fallback_recommendations(c.user_request, c.media_type))

InitRun ==
    /\ pc = "idle"
    /\ call = NoCall
    /\ attrs = [_current_media_type |-> NotSet(""), _current_user_request |-> NotSet(<<>>)]
    /\ descr = [state |-> "template"]
    /\ crew = <<>>
    /\ work = {}
    /\ outcome = NoOutcome
    /\ elapsed = 0

\* run() from its entry to the call of crew.kickoff, or to its return when
\* validation or the interpolation of the task descriptions raises
RunCall(c) ==
    /\ pc = "idle"
    /\ call' = c
    /\ elapsed' = 0
    /\ IF _validate_inputs(c.user_request, c.media_type, c.num_recommendations) # "ok"
       THEN /\ outcome' = Except(c)
            /\ attrs' = Finally(attrs)
            /\ work' = {"validate"}
            /\ pc' = "returned"
            /\ UNCHANGED <<descr, crew>>
       ELSE LET at1 == [_current_media_type |-> IsSet(c.media_type),
                        _current_user_request |-> IsSet(c.user_request)]
                upd == _update_task_descriptions(descr, c)
                fast_path_match == _check_fast_path(c.user_request)
            IN /\ descr' = upd.descr
               /\ IF upd.raised # "none"
                  THEN /\ outcome' = Except(c)
                       /\ attrs' = Finally(at1)
                       /\ work' = {"validate", "descriptions"}
                       /\ pc' = "returned"
                       /\ UNCHANGED crew
                  ELSE /\ crew' = IF fast_path_match # None
                                  THEN _create_fast_path_crew(fast_path_match)
                                  ELSE _create_crew(at1)
                       /\ attrs' = at1
                       /\ work' = {"validate", "descriptions", "fast_path", "crew", "kickoff"}
                       /\ outcome' = NoOutcome
                       /\ pc' = "kickoff"
    /\ UNCHANGED <<cacheVars, memoVars, lockVars, benchVars, peerVars>>

\* the timeout of _execute_crew_with_timeout, in ticks of 60 seconds
timeout == 2

MaxElapsed == timeout + Overhead + 1

\* time passes while run() waits in crew.kickoff, which it calls on its own thread
Tick ==
    /\ pc = "kickoff"
    /\ elapsed < MaxElapsed
    /\ elapsed' = elapsed + 1
    /\ UNCHANGED <<pc, call, attrs, descr, crew, work, outcome>>
    /\ UNCHANGED <<cacheVars, memoVars, lockVars, benchVars, peerVars>>

\* what the pipeline handed back, stage by stage: a list or a text, and for a
\* text whether each parser stage finds records in it
ResultFacts(result) ==
    IF result.t = "list" THEN {"result:list"}
    ELSE LET text == StrOfResult(result)
             m == _extract_json_from_text(text)
         IN {"result:text"}
              \cup (IF m # None /\ _parse_json_safely(m.loads) # None
                    THEN {"json:items"} ELSE {"json:nothing"})
              \cup (IF _parse_structured_text(text) # <<>>
                    THEN {"text:records"} ELSE {"text:nothing"})

\* the number of records enrichment will see
NumRecs(result) == LET parsed == _parse_result(result) IN IF parsed.t = "list" THEN Len(parsed.v) ELSE 0

\* crew.kickoff returns: the rest of run()
KickoffReturn(result, fetch) ==
    /\ pc = "kickoff"
    /\ outcome' = Returned(_process_crew_result(result, call.user_request, call.media_type, fetch))
    /\ attrs' = Finally(attrs)
    /\ work' = work \cup {"process"} \cup ResultFacts(result)
    /\ pc' = "returned"
    /\ elapsed' = 0
    /\ UNCHANGED <<call, descr, crew>>
    /\ UNCHANGED <<cacheVars, memoVars, lockVars, benchVars, peerVars>>

\* crew.kickoff raises: the except block of run()
KickoffRaise ==
    /\ pc = "kickoff"
    /\ outcome' = Except(call)
    /\ attrs' = Finally(attrs)
    /\ work' = work \cup {"kickoff raised"}
    /\ pc' = "returned"
    /\ elapsed' = 0
    /\ UNCHANGED <<call, descr, crew>>
    /\ UNCHANGED <<cacheVars, memoVars, lockVars, benchVars, peerVars>>

\* the caller takes the outcome; the orchestrator is ready for its next call
NextRequest ==
    /\ pc = "returned"
    /\ pc' = "idle"
    /\ call' = NoCall
    /\ crew' = <<>>
    /\ work' = {}
    /\ outcome' = NoOutcome
    /\ elapsed' = 0
    /\ UNCHANGED <<attrs, descr>>
    /\ UNCHANGED <<cacheVars, memoVars, lockVars, benchVars, peerVars>>

----------------------------------------------------------------------------
(* The steps of the result cascade, each called on its own *)

\* records with a year, as the pipeline writes them
DatedDicts ==
    { Dict([title |-> Word("Dune"), year |-> Str(<<"2010", "-", "07">>),
            rating |-> Str(<<"SP", "8.47">>)]),
      Dict([title |-> Word("Emma"), year |-> Str(<<"1815">>), rating |-> Word("Unknown"),
            type |-> Word("book")]) }

\* lists of records given to _post_process_recommendations
PostInputs == SeqsUpTo(RawDicts \cup DatedDicts, MaxItems) \cup {<<>>}

\* lists given to _enrich_ratings: what _parse_result can hand on
EnrichInputs == {r.v : r \in ListResults}

\* one call: the function, its argument, the lookup outcomes it met, what it
\* returned, and whether the argument was the function's own earlier output
Called(fn, arg, fetch, ret, again) ==
    [fn |-> fn, arg |-> arg, fetch |-> fetch, ret |-> ret, again |-> again]

NoBench == Called("none", None, <<>>, None, FALSE)

InitBench == bench = NoBench

ParseResult(result) ==
    /\ bench.fn = "none"
    /\ bench' = Called("_parse_result", result, <<>>, _parse_result(result), FALSE)
    /\ UNCHANGED <<runVars, cacheVars, memoVars, lockVars, peerVars>>

ParseStructuredText(text) ==
    /\ bench.fn = "none"
    /\ bench' = Called("_parse_structured_text", [t |-> "text", v |-> text], <<>>,
                       List(_parse_structured_text(text)), FALSE)
    /\ UNCHANGED <<runVars, cacheVars, memoVars, lockVars, peerVars>>

PostProcess(recommendations) ==
    /\ bench.fn = "none"
    /\ bench' = Called("_post_process_recommendations", List(recommendations), <<>>,
                       List(_post_process_recommendations(recommendations)), FALSE)
    /\ UNCHANGED <<runVars, cacheVars, memoVars, lockVars, peerVars>>

\* the post-processor is given a list that has been post-processed already
PostProcessAgain ==
    /\ bench.fn \in {"_post_process_recommendations", "_parse_structured_text"}
    /\ bench' = Called("_post_process_recommendations", bench.ret, <<>>,
                       List(_post_process_recommendations(bench.ret.v)), TRUE)
    /\ UNCHANGED <<runVars, cacheVars, memoVars, lockVars, peerVars>>

EnrichRatings(recommendations, fetch) ==
    /\ bench.fn = "none"
    /\ bench' = Called("_enrich_ratings", List(recommendations), fetch,
                       List(_enrich_ratings(recommendations, fetch)), FALSE)
    /\ UNCHANGED <<runVars, cacheVars, memoVars, lockVars, peerVars>>

----------------------------------------------------------------------------
(* PersistentCacheManager *)

SAVE_DEBOUNCE_SECONDS == 1

Keys == {"k1", "k2"}

\* a value json.dump cannot serialise
Unserialisable == [t |-> "object", v |-> 0]

CacheValues == {Word("a"), Num(880), Unserialisable}

\* ttl arguments; NoTTL stands for ttl=None
NoTTL == -1
TTLs == {NoTTL, 0, 1, 2}

\* what the file system allows: everything; the cache directory cannot be
\* created; the file cannot be opened for reading; or for writing
DiskModes == {"ok", "nodir", "unreadable", "unwritable"}

EmptyMap == <<>>

MissingFile == [kind |-> "missing", data |-> EmptyMap]
GarbageFile == [kind |-> "garbage", data |-> EmptyMap]
JsonFile(data) == [kind |-> "json", data |-> data]

\* the fields of an instance that its methods read and write, with the file
Inst(cache, dirty, last_save_time, f) ==
    [_cache |-> cache, _dirty |-> dirty, _last_save_time |-> last_save_time, file |-> f]

\* json.dump accepts the value
Serialisable(value) == value.t \in {"str", "num", "none"}

\* remove a key from a map
DelKey(m, k) == [x \in DOMAIN m \ {k} |-> m[x]]

\* _save_to_disk that debounces forced saves too
_save_to_disk_debounce_forced(inst, force, mode, current_time) ==
    IF (current_time - inst._last_save_time) < SAVE_DEBOUNCE_SECONDS
    THEN [inst |-> [inst EXCEPT !._dirty = TRUE], saved |-> FALSE, failed |-> FALSE]
    ELSE IF mode \in {"unwritable", "nodir"}
         THEN [inst |-> inst, saved |-> FALSE, failed |-> TRUE]
         ELSE IF \E k \in DOMAIN inst._cache : ~Serialisable(inst._cache[k][2])
              THEN [inst |-> [inst EXCEPT !.file = GarbageFile], saved |-> FALSE, failed |-> TRUE]
              ELSE [inst |-> [inst EXCEPT
                                !.file = JsonFile([k \in DOMAIN inst._cache |-> List(inst._cache[k])]),
                                !._last_save_time = current_time,
                                !._dirty = FALSE],
                    saved |-> TRUE, failed |-> FALSE]

\* _save_to_disk: the instance afterwards, and whether the file was written.
\* A failing open leaves the file alone; a value json.dump rejects leaves a
\* truncated file behind.  Neither touches _dirty or _last_save_time.
_save_to_disk(inst, force, mode, current_time) ==
    IF ~force /\ (current_time - inst._last_save_time) < SAVE_DEBOUNCE_SECONDS
    THEN [inst |-> [inst EXCEPT !._dirty = TRUE], saved |-> FALSE, failed |-> FALSE]
    ELSE IF mode \in {"unwritable", "nodir"}
         THEN [inst |-> inst, saved |-> FALSE, failed |-> TRUE]
         ELSE IF \E k \in DOMAIN inst._cache : ~Serialisable(inst._cache[k][2])
              THEN [inst |-> [inst EXCEPT !.file = GarbageFile], saved |-> FALSE, failed |-> TRUE]
              ELSE [inst |-> [inst EXCEPT
                                !.file = JsonFile([k \in DOMAIN inst._cache |-> List(inst._cache[k])]),
                                !._last_save_time = current_time,
                                !._dirty = FALSE],
                    saved |-> TRUE, failed |-> FALSE]

\* the entries _load_from_disk accepts: two-element lists
WellFormed(entry) == entry.t = "list" /\ Len(entry.v) = 2

\* a timestamp that json.load gave as a string: it stands outside the numbers,
\* which are the integers from 0 on, and subtracting it raises TypeError
StringStamp == -2

IsNumber(stamp) == stamp >= 0

\* _load_from_disk: the instance afterwards
_load_from_disk(inst, mode, current_time) ==
    IF inst.file.kind # "missing"
    THEN IF mode = "unreadable" \/ inst.file.kind = "garbage"
         THEN [inst EXCEPT !._cache = EmptyMap]
         ELSE [inst EXCEPT !._cache =
                 [k \in {x \in DOMAIN inst.file.data : WellFormed(inst.file.data[x])} |->
                    inst.file.data[k].v] @@ inst._cache]
    ELSE _save_to_disk(inst, TRUE, mode, current_time).inst

\* __init__: the instance afterwards, and whether the constructor raised
\* (Path.mkdir is called outside any try block)
__init__(f, mode, current_time) ==
    IF mode = "nodir"
    THEN [inst |-> Inst(EmptyMap, FALSE, 0, f), raised |-> TRUE]
    ELSE [inst |-> _load_from_disk(Inst(EmptyMap, FALSE, 0, f), mode, current_time), raised |-> FALSE]

\* get that keeps an entry whose age equals the ttl
get_strict_expiry(inst, key, ttl, current_time) ==
    IF key \notin DOMAIN inst._cache
    THEN [inst |-> inst, ret |-> None, raised |-> FALSE]
    ELSE LET cache_time == inst._cache[key][1]
             value == inst._cache[key][2]
         IN IF ttl # NoTTL /\ ~IsNumber(cache_time)
            THEN [inst |-> inst, ret |-> None, raised |-> TRUE]
            ELSE IF ttl # NoTTL /\ (current_time - cache_time) > ttl
                 THEN [inst |-> [inst EXCEPT !._cache = DelKey(inst._cache, key), !._dirty = TRUE],
                       ret |-> None, raised |-> FALSE]
                 ELSE [inst |-> inst, ret |-> value, raised |-> FALSE]

\* get: the instance afterwards, the value returned, and whether get raised
\* (with a ttl, the age of the entry is computed from its timestamp)
get(inst, key, ttl, current_time) ==
    IF key \notin DOMAIN inst._cache
    THEN [inst |-> inst, ret |-> None, raised |-> FALSE]
    ELSE LET cache_time == inst._cache[key][1]
             value == inst._cache[key][2]
         IN IF ttl # NoTTL /\ ~IsNumber(cache_time)
            THEN [inst |-> inst, ret |-> None, raised |-> TRUE]
            ELSE IF ttl # NoTTL /\ (current_time - cache_time) >= ttl
                 THEN [inst |-> [inst EXCEPT !._cache = DelKey(inst._cache, key), !._dirty = TRUE],
                       ret |-> None, raised |-> FALSE]
                 ELSE [inst |-> inst, ret |-> value, raised |-> FALSE]

\* set that keeps the timestamp of an entry it overwrites
set_keeps_timestamp(inst, key, value, mode, current_time) ==
    LET stamp == IF key \in DOMAIN inst._cache THEN inst._cache[key][1] ELSE current_time
    IN _save_to_disk([inst EXCEPT !._cache = (key :> <<stamp, value>>) @@ inst._cache],
                     TRUE, mode, current_time)

\* set: the instance afterwards and what the save did
set(inst, key, value, mode, current_time) ==
    _save_to_disk([inst EXCEPT !._cache = (key :> <<current_time, value>>) @@ inst._cache],
                  TRUE, mode, current_time)

\* clear
clear(inst, mode, current_time) ==
    _save_to_disk([inst EXCEPT !._cache = EmptyMap], TRUE, mode, current_time)

\* cleanup_expired: the instance afterwards, what the save did, and whether
\* computing the age of an entry raised
cleanup_expired(inst, ttl, mode, current_time) ==
    LET expired_keys == {k \in DOMAIN inst._cache : (current_time - inst._cache[k][1]) >= ttl}
        swept == [inst EXCEPT !._cache = [k \in DOMAIN inst._cache \ expired_keys |-> inst._cache[k]]]
    IN IF \E k \in DOMAIN inst._cache : ~IsNumber(inst._cache[k][1])
       THEN [inst |-> inst, saved |-> FALSE, failed |-> FALSE, raised |-> TRUE]
       ELSE IF expired_keys # {}
            THEN _save_to_disk(swept, TRUE, mode, current_time) @@ [raised |-> FALSE]
            ELSE [inst |-> swept, saved |-> FALSE, failed |-> FALSE, raised |-> FALSE]

\* get_stats
get_stats(inst) ==
    [total_entries |-> Cardinality(DOMAIN inst._cache), file_exists |-> inst.file.kind # "missing"]

\* __del__
__del__(inst, mode, current_time) ==
    IF inst._dirty THEN _save_to_disk(inst, TRUE, mode, current_time) ELSE [inst |-> inst, saved |-> FALSE, failed |-> FALSE]

----------------------------------------------------------------------------
(* The cache as a state machine: one instance at a time on one file *)

\* the last operation: its name, its key, the value it returned, whether it
\* raised, and whether its save to disk failed
Op(op, key, ret, raised, failed) ==
    [op |-> op, key |-> key, ret |-> ret, raised |-> raised, failed |-> failed]

NoOp == Op("none", "", None, FALSE, FALSE)

CurInst == Inst(_cache, _dirty, _last_save_time, file)

\* the instance fields and the file after an operation
Becomes(inst) ==
    /\ _cache' = inst._cache
    /\ _dirty' = inst._dirty
    /\ _last_save_time' = inst._last_save_time
    /\ file' = inst.file

InitCacheIdle ==
    /\ cstate = "unconstructed"
    /\ _cache = EmptyMap
    /\ _dirty = FALSE
    /\ _last_save_time = 0
    /\ file = MissingFile
    /\ disk = "ok"
    /\ now = 1
    /\ last = NoOp

InitCache ==
    /\ cstate = "unconstructed"
    /\ _cache = EmptyMap
    /\ _dirty = FALSE
    /\ _last_save_time = 0
    /\ file \in {MissingFile, GarbageFile, JsonFile(EmptyMap)}
    /\ disk \in DiskModes
    /\ disk = "nodir" => file = MissingFile
    /\ now = 1
    /\ last = NoOp

\* PersistentCacheManager(cache_file)
Construct ==
    /\ cstate \in {"unconstructed", "failed"}
    /\ LET r == __init__(file, disk, now)
       IN /\ Becomes(r.inst)
          /\ cstate' = IF r.raised THEN "failed" ELSE "live"
          /\ last' = Op("init", "", None, r.raised, FALSE)
    /\ UNCHANGED <<disk, now>>
    /\ UNCHANGED <<runVars, memoVars, lockVars, benchVars, peerVars>>

Get(key, ttl) ==
    /\ cstate = "live"
    /\ LET r == get(CurInst, key, ttl, now)
       IN /\ Becomes(r.inst)
          /\ last' = Op("get", key, r.ret, r.raised, FALSE)
    /\ UNCHANGED <<cstate, disk, now>>
    /\ UNCHANGED <<runVars, memoVars, lockVars, benchVars, peerVars>>

Set(key, value) ==
    /\ cstate = "live"
    /\ LET r == set(CurInst, key, value, disk, now)
       IN /\ Becomes(r.inst)
          /\ last' = Op("set", key, None, FALSE, r.failed)
    /\ UNCHANGED <<cstate, disk, now>>
    /\ UNCHANGED <<runVars, memoVars, lockVars, benchVars, peerVars>>

Clear ==
    /\ cstate = "live"
    /\ LET r == clear(CurInst, disk, now)
       IN /\ Becomes(r.inst)
          /\ last' = Op("clear", "", None, FALSE, r.failed)
    /\ UNCHANGED <<cstate, disk, now>>
    /\ UNCHANGED <<runVars, memoVars, lockVars, benchVars, peerVars>>

CleanupExpired(ttl) ==
    /\ cstate = "live"
    /\ LET r == cleanup_expired(CurInst, ttl, disk, now)
       IN /\ Becomes(r.inst)
          /\ last' = Op("cleanup_expired", "", None, r.raised, r.failed)
    /\ UNCHANGED <<cstate, disk, now>>
    /\ UNCHANGED <<runVars, memoVars, lockVars, benchVars, peerVars>>

GetStats ==
    /\ cstate = "live"
    /\ last' = Op("get_stats", "", Num(get_stats(CurInst).total_entries), FALSE, FALSE)
    /\ UNCHANGED <<cstate, _cache, _dirty, _last_save_time, file, disk, now>>
    /\ UNCHANGED <<runVars, memoVars, lockVars, benchVars, peerVars>>

\* the instance is destroyed (the process ends); a new one can be constructed
Del ==
    /\ cstate = "live"
    /\ LET r == __del__(CurInst, disk, now)
       IN /\ file' = r.inst.file
          /\ last' = Op("del", "", None, FALSE, r.failed)
    /\ cstate' = "unconstructed"
    /\ _cache' = EmptyMap
    /\ _dirty' = FALSE
    /\ _last_save_time' = 0
    /\ UNCHANGED <<disk, now>>
    /\ UNCHANGED <<runVars, memoVars, lockVars, benchVars, peerVars>>

\* time.time() advances
CacheTick ==
    /\ now < MaxNow
    /\ now' = now + 1
    /\ UNCHANGED <<cstate, _cache, _dirty, _last_save_time, file, disk, last>>
    /\ UNCHANGED <<runVars, memoVars, lockVars, benchVars, peerVars>>

\* the file system changes under the process; a cache directory that exists
\* stays
DiskFault(mode) ==
    /\ mode # disk
    /\ mode # "nodir"
    /\ disk' = mode
    /\ UNCHANGED <<cstate, _cache, _dirty, _last_save_time, file, now, last>>
    /\ UNCHANGED <<runVars, memoVars, lockVars, benchVars, peerVars>>

----------------------------------------------------------------------------
(* Two instances on one file, and instances constructed on files found on disk *)

\* the second instance: its own map, flag and save time; the file is shared
NoPeer == [cstate |-> "unconstructed", _cache |-> EmptyMap, _dirty |-> FALSE, _last_save_time |-> 0]

InitPeer == peer = NoPeer

PeerInst == Inst(peer._cache, peer._dirty, peer._last_save_time, file)

PeerBecomes(inst, state) ==
    /\ peer' = [cstate |-> state, _cache |-> inst._cache, _dirty |-> inst._dirty,
                _last_save_time |-> inst._last_save_time]
    /\ file' = inst.file

\* PersistentCacheManager(cache_file), a second time on the same file
PeerConstruct ==
    /\ peer.cstate = "unconstructed"
    /\ LET r == __init__(file, disk, now)
       IN /\ PeerBecomes(r.inst, IF r.raised THEN "failed" ELSE "live")
          /\ last' = Op("init", "", None, r.raised, FALSE)
    /\ UNCHANGED <<cstate, _cache, _dirty, _last_save_time, disk, now>>
    /\ UNCHANGED <<runVars, memoVars, lockVars, benchVars>>

\* set through the second instance
PeerSet(key, value) ==
    /\ peer.cstate = "live"
    /\ LET r == set(PeerInst, key, value, disk, now)
       IN /\ PeerBecomes(r.inst, "live")
          /\ last' = Op("set", key, None, FALSE, r.failed)
    /\ UNCHANGED <<cstate, _cache, _dirty, _last_save_time, disk, now>>
    /\ UNCHANGED <<runVars, memoVars, lockVars, benchVars>>

\* the values the rating cache is given
SharedValues == {value \in CacheValues : Serialisable(value)}

\* entries a cache file can hold: a pair of a time and a value, a pair whose
\* first element is a string, a one-element list, and a bare string
FileEntries ==
    { List(<<1, Word("a")>>), List(<<StringStamp, Word("a")>>), List(<<1>>), Word("junk") }

\* the files an instance can be constructed on
LoadFiles == {MissingFile, GarbageFile, JsonFile(EmptyMap)} \cup {JsonFile(d) : d \in [Keys -> FileEntries]}

InitLoad ==
    /\ cstate = "unconstructed"
    /\ _cache = EmptyMap
    /\ _dirty = FALSE
    /\ _last_save_time = 0
    /\ file \in LoadFiles
    /\ disk \in {"ok", "unreadable"}
    /\ now = 1
    /\ last = NoOp

----------------------------------------------------------------------------
(* API-call memoizer: cache_api_call(ttl) and its wrapper *)

\* a decorated method: the class that defines it, its func.__name__ and the
\* ttl of its decorator in units of 300 seconds
Fn(cls, name, ttl) == [cls |-> cls, name |-> name, ttl |-> ttl]

MovieSearch_run == Fn("MovieSearchTool", "_run", 1)
TVSearch_run == Fn("TVSearchTool", "_run", 1)
MovieSearch_get_trailer_url == Fn("MovieSearchTool", "_get_trailer_url", 12)

\* the tool instance a method is called on: args[0] of the wrapper
Receiver(fn) == [t |-> "object", v |-> fn.cls]

\* keyword arguments in the order of the call
YearGenre == << <<"year", Num(1999)>>, <<"genre", Word("action")>> >>
GenreYear == << <<"genre", Word("action")>>, <<"year", Num(1999)>> >>

\* the calls made through the wrappers: [fn, args, kwargs], args without the receiver
MemoCall3(fn, args, kwargs) == [fn |-> fn, args |-> args, kwargs |-> kwargs]

MemoCalls ==
    { MemoCall3(MovieSearch_run, <<Word("inception")>>, <<>>),
      MemoCall3(MovieSearch_run, <<Word("dune")>>, <<>>),
      MemoCall3(MovieSearch_run, <<Word("inception")>>, YearGenre),
      MemoCall3(MovieSearch_run, <<Word("inception")>>, GenreYear),
      MemoCall3(TVSearch_run, <<Word("inception")>>, <<>>),
      MemoCall3(MovieSearch_get_trailer_url, <<Num(603)>>, <<>>) }

\* what the wrapped function does when it is invoked
Behaviour(kind, value) == [kind |-> kind, value |-> value]

FnBehaviours(fn) ==
    {Behaviour("raise", None)} \cup
      (CASE fn = MovieSearch_run -> {Behaviour("return", Word("movies found"))}
         [] fn = TVSearch_run -> {Behaviour("return", Word("shows found"))}
         [] OTHER -> {Behaviour("return", Word("url")), Behaviour("return", None)})

\* the position of a keyword name in sorted order
KwRank(name) == CASE name = "genre" -> 1 [] name = "year" -> 2 [] OTHER -> 3

\* insert one item into a list of items sorted by name
RECURSIVE KwInsert(_, _)
KwInsert(item, sorted) ==
    IF sorted = <<>> \/ KwRank(item[1]) <= KwRank(Head(sorted)[1])
    THEN <<item>> \o sorted
    ELSE <<Head(sorted)>> \o KwInsert(item, Tail(sorted))

\* dict(sorted(kwargs.items()))
RECURSIVE sorted_kwargs(_)
sorted_kwargs(kwargs) ==
    IF kwargs = <<>> THEN <<>> ELSE KwInsert(Head(kwargs), sorted_kwargs(Tail(kwargs)))

\* repr() of an argument value, as tokens
Repr(x) ==
    CASE x.t = "str" -> <<"'">> \o x.v \o <<"'">>
      [] x.t = "num" -> <<ToString(x.v)>>
      [] x.t = "none" -> <<"None">>
      [] OTHER -> <<"<", x.v, "object", ">">>

\* str() of a tuple of arguments
RECURSIVE StrItems(_)
StrItems(s) == IF s = <<>> THEN <<>> ELSE Repr(Head(s)) \o <<",">> \o StrItems(Tail(s))

StrTuple(s) == <<"(">> \o StrItems(s) \o <<")">>

\* str() of a dict of keyword arguments
RECURSIVE StrPairs(_)
StrPairs(s) ==
    IF s = <<>> THEN <<>>
    ELSE <<"'", Head(s)[1], "'", ":">> \o Repr(Head(s)[2]) \o <<",">> \o StrPairs(Tail(s))

StrDict(s) == <<"{">> \o StrPairs(s) \o <<"}">>

\* key_args: every Python object has __class__, so the first positional
\* argument is dropped whenever there is one
key_args(args) == IF Len(args) > 0 THEN Tail(args) ELSE args

\* cache_key = f"{func.__name__}:{str(key_args)}:{str(sorted_kwargs)}"
cache_key(fn, args, kwargs) ==
    <<fn.name, ":">> \o StrTuple(key_args(args)) \o <<":">> \o StrDict(sorted_kwargs(kwargs))

\* wrapper that stores None for a call that raised, before re-raising
wrapper_caches_failure(inst, fn, args, kwargs, behaviour, mode, current_time) ==
    LET key == cache_key(fn, args, kwargs)
        g == get(inst, key, fn.ttl, current_time)
    IN IF g.raised
       THEN [inst |-> g.inst, key |-> key, ret |-> None, raised |-> TRUE, invoked |-> 0]
       ELSE IF g.ret # None
       THEN [inst |-> g.inst, key |-> key, ret |-> g.ret, raised |-> FALSE, invoked |-> 0]
       ELSE IF behaviour.kind = "raise"
            THEN [inst |-> set(g.inst, key, None, mode, current_time).inst,
                  key |-> key, ret |-> None, raised |-> TRUE, invoked |-> 1]
            ELSE [inst |-> set(g.inst, key, behaviour.value, mode, current_time).inst,
                  key |-> key, ret |-> behaviour.value, raised |-> FALSE, invoked |-> 1]

\* wrapper: the cache instance afterwards, the key, the value returned, whether
\* the call raised, and how often the wrapped function was invoked
wrapper(inst, fn, args, kwargs, behaviour, mode, current_time) ==
    LET key == cache_key(fn, args, kwargs)
        g == get(inst, key, fn.ttl, current_time)
    IN IF g.raised
       THEN [inst |-> g.inst, key |-> key, ret |-> None, raised |-> TRUE, invoked |-> 0]
       ELSE IF g.ret # None
       THEN [inst |-> g.inst, key |-> key, ret |-> g.ret, raised |-> FALSE, invoked |-> 0]
       ELSE IF behaviour.kind = "raise"
            THEN [inst |-> g.inst, key |-> key, ret |-> None, raised |-> TRUE, invoked |-> 1]
            ELSE [inst |-> set(g.inst, key, behaviour.value, mode, current_time).inst,
                  key |-> key, ret |-> behaviour.value, raised |-> FALSE, invoked |-> 1]

NoMemo ==
    [op |-> "none", fn |-> Fn("", "", 0), args |-> <<>>, kwargs |-> <<>>, key |-> <<>>,
     ret |-> None, raised |-> FALSE, invoked |-> 0]

InitMemo == memo = NoMemo

\* one call of a decorated method through its wrapper
MemoCall(c, behaviour) ==
    /\ cstate = "live"
    /\ LET r == wrapper(CurInst, c.fn, <<Receiver(c.fn)>> \o c.args, c.kwargs, behaviour, disk, now)
       IN /\ Becomes(r.inst)
          /\ memo' = [op |-> "call", fn |-> c.fn, args |-> c.args, kwargs |-> c.kwargs,
                      key |-> r.key, ret |-> r.ret, raised |-> r.raised, invoked |-> r.invoked]
    /\ UNCHANGED <<cstate, disk, now, last>>
    /\ UNCHANGED <<runVars, lockVars, benchVars, peerVars>>

----------------------------------------------------------------------------
(* The lock discipline of PersistentCacheManager: threads sharing one instance *)

Threads == {"t1", "t2"}

\* The code paths of the methods as the ordered accesses they make: "acquire"
\* and "release" are the entry and the exit of `with self.lock`, "map:read" and
\* "map:write" an access to self._cache, "file:read" and "file:write" one to
\* the cache file.  _save_to_disk and _load_from_disk take no lock themselves.
MethodPaths(method) ==
    CASE method = "get" ->
           { <<"acquire", "map:read", "release">>,
             <<"acquire", "map:read", "map:write", "release">> }
      [] method = "set" ->
           { <<"acquire", "map:write", "map:read", "file:write", "release">> }
      [] method = "clear" ->
           { <<"acquire", "map:write", "map:read", "file:write", "release">> }
      [] method = "cleanup_expired" ->
           { <<"acquire", "map:read", "release">>,
             <<"acquire", "map:read", "map:write", "map:write", "map:read", "file:write", "release">> }
      [] method = "get_stats" ->
           { <<"acquire", "map:read", "file:read", "release">> }
      [] method = "__init__" ->
           { <<"map:write", "file:read", "map:write">>,
             <<"map:write", "map:read", "file:write">> }
      [] method = "__del__" ->
           { <<>>, <<"map:read", "file:write">> }

\* the methods threads call on the shared instance
PublicMethods == {"get", "set", "clear", "cleanup_expired", "get_stats"}

\* a thread: the method it is in, the accesses still to make, and whether it
\* has written the map in this method
InMethod(method, steps, wrote) == [method |-> method, steps |-> steps, wrote |-> wrote]

Idle == InMethod("idle", <<>>, FALSE)

NoLock == [owner |-> "none", count |-> 0]

Access(thread, method, target, held, partial) ==
    [thread |-> thread, method |-> method, target |-> target, held |-> held, partial |-> partial]

NoAccess == Access("none", "none", "none", FALSE, FALSE)

\* a thread that has written the map and has another write of it to make
MidUpdate(th) == th.wrote /\ \E i \in 1..Len(th.steps) : th.steps[i] = "map:write"

InitLock ==
    /\ lock = NoLock
    /\ thr = [t \in Threads |-> Idle]
    /\ access = NoAccess

\* a thread that has finished its method
Finished(t, method) ==
    /\ thr' = [thr EXCEPT ![t] = Idle]
    /\ cstate' = CASE method = "__init__" -> "live"
                   [] method = "__del__" -> "unconstructed"
                   [] OTHER -> cstate

\* the constructor runs before any other thread has the instance
StartInit(t, path) ==
    /\ cstate = "unconstructed"
    /\ \A u \in Threads : thr[u] = Idle
    /\ thr' = [thr EXCEPT ![t] = InMethod("__init__", path, FALSE)]
    /\ cstate' = "constructing"
    /\ UNCHANGED <<lock, access>>
    /\ UNCHANGED <<_cache, _dirty, _last_save_time, file, disk, now, last>>
    /\ UNCHANGED <<runVars, memoVars, benchVars, peerVars>>

\* a thread calls a method of the live instance
StartMethod(t, method, path) ==
    /\ cstate = "live"
    /\ thr[t] = Idle
    /\ thr' = [thr EXCEPT ![t] = InMethod(method, path, FALSE)]
    /\ UNCHANGED <<lock, access, cstate>>
    /\ UNCHANGED <<_cache, _dirty, _last_save_time, file, disk, now, last>>
    /\ UNCHANGED <<runVars, memoVars, benchVars, peerVars>>

\* the destructor runs once no thread refers to the instance
StartDel(t, path) ==
    /\ cstate = "live"
    /\ \A u \in Threads : thr[u] = Idle
    /\ IF path = <<>>
       THEN /\ cstate' = "unconstructed"
            /\ UNCHANGED thr
       ELSE /\ cstate' = "finalizing"
            /\ thr' = [thr EXCEPT ![t] = InMethod("__del__", path, FALSE)]
    /\ UNCHANGED <<lock, access>>
    /\ UNCHANGED <<_cache, _dirty, _last_save_time, file, disk, now, last>>
    /\ UNCHANGED <<runVars, memoVars, benchVars, peerVars>>

\* a thread makes the next access of its method
Step(t) ==
    /\ thr[t].steps # <<>>
    /\ LET step == Head(thr[t].steps)
           rest == Tail(thr[t].steps)
           th1 == InMethod(thr[t].method, rest, thr[t].wrote \/ step = "map:write")
       IN /\ CASE step = "acquire" ->
                    /\ lock.owner \in {"none", t}
                    /\ lock' = [owner |-> t, count |-> lock.count + 1]
                    /\ UNCHANGED access
               [] step = "release" ->
                    /\ lock' = IF lock.count = 1 THEN NoLock
                               ELSE [lock EXCEPT !.count = lock.count - 1]
                    /\ UNCHANGED access
               [] OTHER ->
                    /\ access' = Access(t, thr[t].method, step, lock.owner = t,
                                        \E u \in Threads \ {t} : MidUpdate(thr[u]))
                    /\ UNCHANGED lock
          /\ IF rest = <<>>
             THEN Finished(t, thr[t].method)
             ELSE /\ thr' = [thr EXCEPT ![t] = th1]
                  /\ UNCHANGED cstate
    /\ UNCHANGED <<_cache, _dirty, _last_save_time, file, disk, now, last>>
    /\ UNCHANGED <<runVars, memoVars, benchVars, peerVars>>

----------------------------------------------------------------------------
(* Specifications *)

Init == InitRun /\ InitCacheIdle /\ InitMemo /\ InitLock /\ InitBench /\ InitPeer

Next ==
    \/ \E c \in Calls : RunCall(c)
    \/ Tick
    \/ \E result \in Results : \E fetch \in [1..NumRecs(result) -> FetchOutcomes] : KickoffReturn(result, fetch)
    \/ KickoffRaise
    \/ NextRequest

Spec == Init /\ [][Next]_vars

CacheInit == InitRun /\ InitCache /\ InitMemo /\ InitLock /\ InitBench /\ InitPeer

CacheNext ==
    \/ Construct
    \/ \E key \in Keys, ttl \in TTLs : Get(key, ttl)
    \/ \E key \in Keys, value \in CacheValues : Set(key, value)
    \/ Clear
    \/ \E ttl \in TTLs \ {NoTTL} : CleanupExpired(ttl)
    \/ GetStats
    \/ Del
    \/ CacheTick
    \/ \E mode \in DiskModes : DiskFault(mode)

CacheSpec == CacheInit /\ [][CacheNext]_vars

MemoInit == InitRun /\ InitCacheIdle /\ InitMemo /\ InitLock /\ InitBench /\ InitPeer

MemoNext ==
    \/ Construct
    \/ \E c \in MemoCalls : \E behaviour \in FnBehaviours(c.fn) : MemoCall(c, behaviour)
    \/ CacheTick

MemoSpec == MemoInit /\ [][MemoNext]_vars

LockInit == InitRun /\ InitCacheIdle /\ InitMemo /\ InitLock /\ InitBench /\ InitPeer

LockNext ==
    \/ \E t \in Threads : \E path \in MethodPaths("__init__") : StartInit(t, path)
    \/ \E t \in Threads, method \in PublicMethods : \E path \in MethodPaths(method) : StartMethod(t, method, path)
    \/ \E t \in Threads : \E path \in MethodPaths("__del__") : StartDel(t, path)
    \/ \E t \in Threads : Step(t)

LockSpec == LockInit /\ [][LockNext]_vars


CascadeInit == InitRun /\ InitCacheIdle /\ InitMemo /\ InitLock /\ InitBench /\ InitPeer

CascadeNext ==
    \/ \E result \in Results : ParseResult(result)
    \/ \E text \in Texts : ParseStructuredText(text)
    \/ \E recommendations \in PostInputs : PostProcess(recommendations)
    \/ PostProcessAgain
    \/ \E recommendations \in EnrichInputs :
         \E fetch \in [1..Len(recommendations) -> FetchOutcomes] : EnrichRatings(recommendations, fetch)

CascadeSpec == CascadeInit /\ [][CascadeNext]_vars

LoadInit == InitRun /\ InitLoad /\ InitMemo /\ InitLock /\ InitBench /\ InitPeer

LoadNext ==
    \/ Construct
    \/ \E key \in Keys, ttl \in TTLs : Get(key, ttl)
    \/ \E ttl \in TTLs \ {NoTTL} : CleanupExpired(ttl)
    \/ CacheTick

LoadSpec == LoadInit /\ [][LoadNext]_vars

SharedInit == InitRun /\ InitCacheIdle /\ InitMemo /\ InitLock /\ InitBench /\ InitPeer

SharedNext ==
    \/ Construct
    \/ PeerConstruct
    \/ \E key \in Keys, value \in SharedValues : Set(key, value)
    \/ \E key \in Keys, value \in SharedValues : PeerSet(key, value)
    \/ CacheTick

SharedSpec == SharedInit /\ [][SharedNext]_vars

----------------------------------------------------------------------------
(* Claims about run() *)

ValidCall(c) == _validate_inputs(c.user_request, c.media_type, c.num_recommendations) = "ok"

\* a record with a non-empty string title
HasTitle(rec) == rec.t = "dict" /\ IsNonEmptyStr(DictGet(rec.v, "title"))

\* a rating that is a number with one decimal, or the sentinel "N/A"
NormalisedRating(rating) ==
    \/ rating = Word("N/A")
    \/ rating.t = "num" /\ rating.v % 10 = 0

\* C1: whenever the request is empty after trimming, the media type is not
\* movie/book/tv or the count is outside 1..10, run() raises an invalid-input
\* error to its caller before any pipeline work and returns no list.
C1_InvalidInputRaises ==
    (pc = "returned" /\ ~ValidCall(call)) =>
        (outcome.kind = "raise" /\ work \subseteq {"validate"})

\* C2: for every valid input and every behaviour of the pipeline (a JSON text,
\* free text, a list, an empty value, an exception) run() returns a non-empty
\* list and does not raise.
C2_ValidInputGivesNonEmptyList ==
    (pc = "returned" /\ ValidCall(call)) =>
        (outcome.kind = "return" /\ outcome.value # <<>>)

\* C2 happens: a valid call whose pipeline returned, with a parsed result
C2_Witness ==
    /\ pc = "returned"
    /\ ValidCall(call)
    /\ "process" \in work
    /\ outcome.kind = "return"
    /\ outcome.value # _get_fallback_recommendations(call.user_request, call.media_type)

\* C3: when the pipeline runs longer than the timeout, run() stops waiting at
\* the deadline: it is never still waiting for the pipeline once the timeout
\* and the bounded overhead have passed.
C3_ReturnsByDeadline ==
    pc = "kickoff" => elapsed <= timeout + Overhead

\* C4: every record of the list run() returns is a map whose title is a
\* non-empty string, whatever the shape of the pipeline output.
C4_TitleInvariant ==
    pc = "returned" =>
        \A i \in 1..Len(outcome.value) : HasTitle(outcome.value[i])

\* C5: every record run() returns from a parsed text result, from whichever
\* parser stage, has a rating that is a number rounded to one decimal or "N/A".
C5_RatingNormalised ==
    (pc = "returned" /\ work \cap {"json:items", "text:records"} # {}) =>
        \A i \in 1..Len(outcome.value) :
            outcome.value[i].t = "dict" =>
                NormalisedRating(DictGet(outcome.value[i].v, "rating"))

\* C6: if neither parser stage finds a record in the final output of the
\* pipeline, run() returns exactly the fallback list of the requested media type.
C6_NothingParsedGivesFallback ==
    (pc = "returned" /\ {"json:nothing", "text:nothing"} \subseteq work) =>
        outcome = Returned(fallback_data(call.media_type))

\* C6 happens: a book request whose pipeline output held nothing parsable
C6_Witness ==
    /\ pc = "returned"
    /\ {"json:nothing", "text:nothing"} \subseteq work
    /\ call.media_type = "book"
    /\ outcome.kind = "return"

SciFiBooks == <<"sci", "SP", "fi", "SP", "books">>

GiveMeAnActionMovie ==
    <<"give", "SP", "me", "SP", "an", "SP", "action", "SP", "movie", "SP", "please">>

\* the closed genre vocabulary a match may report
GenreVocabulary ==
    { <<"action">>, <<"adventure">>, <<"animation">>, <<"comedy">>, <<"crime">>,
      <<"documentary">>, <<"drama">>, <<"family">>, <<"fantasy">>, <<"history">>,
      <<"horror">>, <<"music">>, <<"mystery">>, <<"romance">>, <<"sci-fi">>,
      <<"science", "SP", "fiction">>, <<"thriller">>, <<"war">>, <<"western">> }

\* the crew built for the current call is the fast-path crew
FastCrew == Len(crew) = 2

\* C16: the fast-path classifier gives {type: movie, genre: action} for
\* "action movies" (whatever its case and padding), does not match "sci fi
\* books" nor "give me an action movie please", and on a match reports a genre
\* of the closed vocabulary, "sci fi" as "sci-fi"; the crew is the fast-path
\* crew exactly when the classifier matched.
C16_FastPathExactness ==
    pc = "kickoff" =>
        LET m == _check_fast_path(call.user_request)
        IN /\ FastCrew <=> m # None
           /\ Strip(Lower(call.user_request)) = ActionMovies =>
                m = Dict([type |-> "movie", genre |-> <<"action">>])
           /\ call.user_request = SciFiBooks => (m = None /\ ~FastCrew)
           /\ call.user_request = GiveMeAnActionMovie => (m = None /\ ~FastCrew)
           /\ m # None => m.v.genre \in GenreVocabulary

\* two records for the same item: same title and same type
SameItem(a, b) ==
    /\ a.t = "dict" /\ b.t = "dict"
    /\ Truthy(DictGet(a.v, "title"))
    /\ DictGet(a.v, "title") = DictGet(b.v, "title")
    /\ DictGet(a.v, "type") = DictGet(b.v, "type")

\* C17: the list run() returns never holds two records for the same item.
C17_NoDuplicates ==
    pc = "returned" =>
        \A i \in 1..Len(outcome.value) : \A j \in 1..Len(outcome.value) :
            i < j => ~SameItem(outcome.value[i], outcome.value[j])

\* C18: once run() has returned, by any path, neither the current media type
\* nor the current user request is still set on the orchestrator.
C18_TransientStateCleared ==
    pc = "returned" =>
        (~attrs._current_media_type.set /\ ~attrs._current_user_request.set)

\* the titles of the curated fallback list of a media kind
FixedTitles(kind) ==
    CASE kind = "movie" -> <<Word("Inception"), Word("The Dark Knight")>>
      [] kind = "book" -> <<Word("Project Hail Mary"), Word("Dune")>>
      [] kind = "tv" -> <<Word("Breaking Bad"), Word("Stranger Things")>>

\* run() answered from the Fallback Recommender without a pipeline result
AnsweredByFallback ==
    /\ pc = "returned"
    /\ "process" \notin work
    /\ call.media_type \in {"movie", "book", "tv"}

\* C19: for movie, book and tv the Fallback Recommender gives the same fixed
\* list whatever the request and the count: at least 2 records, each with a
\* non-empty title and with the requested kind as its type, and it never fails.
C19_FallbackFixed ==
    AnsweredByFallback =>
        /\ outcome.kind = "return"
        /\ Len(outcome.value) >= 2
        /\ [i \in 1..Len(outcome.value) |-> DictGet(outcome.value[i].v, "title")]
             = FixedTitles(call.media_type)
        /\ \A i \in 1..Len(outcome.value) :
             /\ HasTitle(outcome.value[i])
             /\ DictGet(outcome.value[i].v, "type") = Word(call.media_type)

\* C19 happens: the pipeline raised on a tv request and the tv list came back
C19_Witness ==
    /\ AnsweredByFallback
    /\ "kickoff raised" \in work
    /\ call.media_type = "tv"
    /\ outcome.kind = "return"

Specialists == {"movie_task", "book_task", "tv_series_task"}

ResearchKeywords ==
    {"trending", "new", "recent", "latest", "upcoming", "update", "news", "current"}

\* the lower-cased request contains one of the research keywords
ContainsKeyword(request) ==
    \E i \in 1..Len(request) : Lower(request)[i] \in ResearchKeywords

----------------------------------------------------------------------------
(* Claims about the cache *)

\* the key -> value map of a cache map
KeyValueMap(m) == [k \in DOMAIN m |-> m[k][2]]

\* the map a fresh instance constructed on the file holds, with a working disk
FreshInstanceCache == __init__(file, "ok", now).inst._cache

\* C7: a get with ttl > 0 made right after set(k, v), with no time in between,
\* returns v, and set stores the new value with the time of the set.
C7_RoundTrip ==
    [][\A k \in Keys, v \in CacheValues :
          Set(k, v) =>
            /\ _cache'[k] = <<now, v>>
            /\ \A ttl \in TTLs : ttl > 0 => get(CurInst', k, ttl, now').ret = v]_vars

\* C7 happens: a get returned the value of an entry set at this very time
C7_Witness ==
    /\ last.op = "get"
    /\ last.key \in DOMAIN _cache
    /\ _cache[last.key] = <<now, Word("a")>>
    /\ last.ret = Word("a")

\* C8: a get on an entry whose age has reached the ttl returns absent, removes
\* the entry from the map so that get_stats counts one entry less, and sets the
\* dirty flag; a get on a younger entry returns its value and leaves the map alone.
C8_Expiry ==
    [][\A k \in Keys, ttl \in TTLs \ {NoTTL} :
          (Get(k, ttl) /\ k \in DOMAIN _cache) =>
            IF now - _cache[k][1] >= ttl
            THEN /\ last'.ret = None
                 /\ k \notin DOMAIN _cache'
                 /\ get_stats(CurInst').total_entries = get_stats(CurInst).total_entries - 1
                 /\ _dirty'
            ELSE /\ last'.ret = _cache[k][2]
                 /\ _cache' = _cache]_vars

\* C8 happens: a get evicted an entry that is still in the file
C8_Witness ==
    /\ last.op = "get"
    /\ last.ret = None
    /\ last.key \notin DOMAIN _cache
    /\ _dirty
    /\ file.kind = "json"
    /\ last.key \in DOMAIN file.data

\* C9: when set returns without a failed save, a fresh instance constructed on
\* the same file holds the same key -> value map as the writer.
C9_SetIsOnDisk ==
    (cstate = "live" /\ last.op = "set" /\ ~last.failed) =>
        KeyValueMap(FreshInstanceCache) = KeyValueMap(_cache)

\* C9 happens: two keys were set and saved
C9_Witness ==
    /\ cstate = "live"
    /\ last.op = "set"
    /\ ~last.failed
    /\ DOMAIN _cache = Keys
    /\ _cache["k1"][1] # _cache["k2"][1]

\* C10: no cache operation raises to its caller because of a disk problem.
C10_NeverRaises == ~last.raised

\* C15: a get by one caller never takes an entry away from another caller:
\* after any get(k, ttl1), a get(k, ttl2) by a caller whose ttl2 is above the
\* entry's age still returns the stored value, whatever ttl1 was.
C15_ReaderSuppliedTtl ==
    [][\A k \in Keys, ttl1 \in TTLs, ttl2 \in TTLs \ {NoTTL} :
          (Get(k, ttl1) /\ k \in DOMAIN _cache /\ now - _cache[k][1] < ttl2) =>
            get(CurInst', k, ttl2, now').ret = _cache[k][2]]_vars

----------------------------------------------------------------------------
(* Claims about the lock discipline *)

\* C11: every access to the in-memory map or to the cache file is made by a
\* thread that holds the instance's lock, the initial load and the destructor
\* flush included, and no thread reads or serialises the map while another
\* thread is in the middle of updating it.
C11_LockHeldOnEveryAccess ==
    access.target # "none" => (access.held /\ ~access.partial)

----------------------------------------------------------------------------
(* Claims about the memoizer *)

\* keyword arguments as a set of name-value pairs
KwMap(kwargs) == {kwargs[i] : i \in 1..Len(kwargs)}

\* C12: two calls through the memoizer use the same cache key only if they
\* call the same wrapped function with equal non-receiver positional arguments
\* and equal keyword arguments, so that no call is answered with the result
\* stored for another function or another argument.
C12_KeyIdentifiesCall ==
    [][(memo.op = "call" /\ memo'.op = "call" /\ memo'.key = memo.key) =>
          /\ memo'.fn = memo.fn
          /\ memo'.args = memo.args
          /\ KwMap(memo'.kwargs) = KwMap(memo.kwargs)]_vars

\* C13: a call whose key has an entry younger than the wrap-time ttl returns
\* the cached value without invoking the wrapped function, None included; a
\* call with no such entry invokes it once, stores its result and returns it.
C13_HitOrSingleInvocation ==
    [][\A c \in MemoCalls : \A b \in FnBehaviours(c.fn) :
          (MemoCall(c, b) /\ b.kind = "return") =>
            LET key == cache_key(c.fn, <<Receiver(c.fn)>> \o c.args, c.kwargs)
            IN IF key \in DOMAIN _cache /\ now - _cache[key][1] < c.fn.ttl
               THEN /\ memo'.invoked = 0
                    /\ memo'.ret = _cache[key][2]
               ELSE /\ memo'.invoked = 1
                    /\ memo'.ret = b.value
                    /\ _cache'[key] = <<now, b.value>>]_vars

\* C14: when the wrapped function raises, the wrapper raises, stores nothing
\* under the key and changes the map at most by evicting the expired entry of
\* that key, so that the next call with the same arguments, now or later,
\* invokes the wrapped function again.
C14_FailureNotCached ==
    [][\A c \in MemoCalls :
          (MemoCall(c, Behaviour("raise", None)) /\ memo'.invoked = 1) =>
            LET key == cache_key(c.fn, <<Receiver(c.fn)>> \o c.args, c.kwargs)
            IN /\ memo'.raised
               /\ \A k \in DOMAIN _cache' : k \in DOMAIN _cache /\ _cache'[k] = _cache[k]
               /\ \A k \in DOMAIN _cache \ DOMAIN _cache' :
                    k = key /\ now - _cache[k][1] >= c.fn.ttl
               /\ \A t \in now..(MaxNow + 1) : \A b \in FnBehaviours(c.fn) :
                    wrapper(CurInst', c.fn, <<Receiver(c.fn)>> \o c.args, c.kwargs, b, disk, t).invoked = 1]_vars

\* C14 happens: a call that raised after its expired entry had been evicted,
\* with the entry of another call still in the map
C14_Witness ==
    /\ memo.op = "call"
    /\ memo.raised
    /\ _dirty
    /\ memo.key \notin DOMAIN _cache
    /\ _cache # EmptyMap

----------------------------------------------------------------------------
(* Claims about the task descriptions and the choice of the specialist *)

\* C21: on every call of run(), the task descriptions handed to the pipeline
\* are the templates interpolated with that call's own values; none carries
\* the values of an earlier call on the same orchestrator.
C21_DescriptionsOfThisCall ==
    pc = "kickoff" => descr = [state |-> "formatted", inputs |-> call]

\* C22: a failure while interpolating a task template never aborts the run:
\* a call with valid inputs goes on to build and start its pipeline, it does
\* not return the fallback list from the interpolation step.
C22_InterpolationNeverAborts ==
    (pc = "returned" /\ ValidCall(call)) => "kickoff" \in work

\* C28: the specialist task of every pipeline is the one of the call's
\* validated media type, on the fast path as on the full path.
C28_SpecialistOfMediaType ==
    pc = "kickoff" =>
        {crew[i] : i \in 1..Len(crew)} \cap Specialists = {SpecialistTask(call.media_type)[1]}

----------------------------------------------------------------------------
(* Claims about the steps of the result cascade *)

\* an element with a title
Titled(item) == item.t = "dict" /\ Truthy(DictGet(item.v, "title"))

TitledElements(s) == SelectSeq(s, Titled)

\* the JSON arrays of a text that hold at least one titled object
TitledArrays(text) ==
    {i \in 1..Len(text.json) :
        text.json[i].loads.t = "list" /\ TitledElements(text.json[i].loads.v) # <<>>}

\* C23: for a text that holds a valid JSON array with at least one titled
\* object and also lines that look like structured-text fields, the parser
\* returns exactly the titled elements of that array, in order.
C23_JsonTakesPrecedence ==
    (bench.fn = "_parse_result" /\ bench.arg.t = "text") =>
        LET text == bench.arg.v
        IN (Cardinality(TitledArrays(text)) = 1 /\ text.lines # <<>>) =>
               bench.ret = List(TitledElements(text.json[CHOOSE i \in TitledArrays(text) : TRUE].loads.v))

\* what the structured-text stage yields for a text: its records, or None
StructuredStage(text) ==
    IF _parse_structured_text(text) # <<>> THEN List(_parse_structured_text(text)) ELSE None

\* C24: whenever JSON extraction yields no valid titled element (no candidate,
\* a candidate that cannot be parsed, or parsed JSON without a titled element),
\* the parser's result is what the structured-text stage yields for the text.
C24_FallsThroughToStructuredText ==
    (bench.fn = "_parse_result" /\ bench.arg.t # "list") =>
        LET text == StrOfResult(bench.arg)
            m == _extract_json_from_text(text)
            nothing == \/ m = None
                       \/ m.loads.t # "list"
                       \/ TitledElements(m.loads.v) = <<>>
        IN nothing => bench.ret = StructuredStage(text)

\* C25: post-processing a list that has been post-processed already changes
\* nothing: no field of any record differs after the second pass.
C25_PostProcessIdempotent ==
    (bench.fn = "_post_process_recommendations" /\ bench.again) => bench.ret = bench.arg

\* a second pass over records whose rating was parsed and whose year was cut
C25_Witness ==
    /\ bench.fn = "_post_process_recommendations"
    /\ bench.again
    /\ bench.ret = bench.arg
    /\ \E i \in 1..Len(bench.arg.v) :
           /\ "year" \in DOMAIN bench.arg.v[i].v
           /\ bench.arg.v[i].v.year = Word("2010")
           /\ bench.arg.v[i].v.rating = Num(850)

\* the ratings the enrichment pass replaces
SentinelRating(rec) == DictGet(rec.v, "rating") \in {None, Str(<<>>), Word("N/A"), Word("Unknown")}

\* C26: the enrichment pass goes over every record: one with a sentinel rating
\* ends with the rating looked up, or with "N/A" when the lookup gave nothing
\* or failed; one with another rating is left as it was.
C26_EnrichmentPerRecord ==
    bench.fn = "_enrich_ratings" =>
        /\ Len(bench.ret.v) = Len(bench.arg.v)
        /\ \A i \in 1..Len(bench.arg.v) :
               LET before == bench.arg.v[i]
                   after == bench.ret.v[i]
               IN before.t = "dict" =>
                      IF SentinelRating(before)
                      THEN /\ after.t = "dict"
                           /\ DictGet(after.v, "rating").t = "num" \/ DictGet(after.v, "rating") = Word("N/A")
                           /\ bench.fetch[i] # "rating" => DictGet(after.v, "rating") = Word("N/A")
                      ELSE after = before

----------------------------------------------------------------------------
(* Claims about loading, the dirty flag and instances sharing a file *)

\* a well-formed entry: a two-element list whose first element is a number
NumericEntry(entry) == entry.t = "list" /\ Len(entry.v) = 2 /\ IsNumber(entry.v[1])

\* C27: an instance constructed on an existing file holds exactly the file's
\* well-formed entries; no malformed entry makes a later get raise; a file
\* that cannot be parsed or read gives an empty map; the constructor does not
\* raise, and a missing file exists once the constructor has returned.
C27_TolerantLoad ==
    /\ last.op = "init" =>
           /\ ~last.raised
           /\ file.kind # "missing"
           /\ (file.kind = "garbage" \/ disk = "unreadable") => _cache = EmptyMap
           /\ (file.kind = "json" /\ disk = "ok") =>
                  _cache = [k \in {x \in DOMAIN file.data : NumericEntry(file.data[x])} |->
                               file.data[k].v]
    /\ last.op = "get" => ~last.raised

\* C29: whenever the dirty flag of a live instance is false, the file holds
\* exactly the in-memory map.
C29_DirtyTracksUnsaved ==
    (cstate = "live" /\ ~_dirty) =>
        /\ file.kind = "json"
        /\ file.data = [k \in DOMAIN _cache |-> List(_cache[k])]

\* C30: with two instances on one file, once a set call has returned the file
\* holds every key set through either instance, these being the keys of the
\* two in-memory maps.
C30_NoFlushDiscardsAKey ==
    (cstate = "live" /\ peer.cstate = "live" /\ last.op = "set") =>
        /\ file.kind = "json"
        /\ (DOMAIN _cache \cup DOMAIN peer._cache) \subseteq DOMAIN file.data

====
